---- MODULE Spec2Model ----
(***************************************************************************)
(* The rwa_collateral program (programs/rwa_collateral/src/lib.rs): a      *)
(* store of Asset and Loan accounts at program-derived addresses and the   *)
(* five instructions that create and mutate them; and the backend          *)
(* (backend/src/solana_client.rs) that derives the addresses, builds the   *)
(* instruction data and decodes the account data.                          *)
(*                                                                         *)
(* 64-bit and 128-bit integers are sequences of 16-bit limbs, least        *)
(* significant limb first, so that every width of the source is kept.      *)
(***************************************************************************)
EXTENDS Integers, Sequences, FiniteSets, TLC

VARIABLES store, last, calc, overflow_checks

vars == <<store, last, calc, overflow_checks>>

(***************************************************************************)
(* Fixed-width integers                                                    *)
(***************************************************************************)
Base == 2^16

U64Limbs == 64 \div 16

U128Limbs == 128 \div 16

Zero(n) == [i \in 1..n |-> 0]

\* the n-limb value of a natural number x < 2^31
FromNat(x, n) ==
    [i \in 1..n |-> IF i = 1 THEN x % Base ELSE IF i = 2 THEN x \div Base ELSE 0]

U64(x) == FromNat(x, U64Limbs)

U64Max == [i \in 1..U64Limbs |-> Base - 1]

I64Max == [i \in 1..U64Limbs |-> IF i = U64Limbs THEN (Base \div 2) - 1 ELSE Base - 1]

\* `x as u128`: zero extension to n limbs
Widen(a, n) == [i \in 1..n |-> IF i <= Len(a) THEN a[i] ELSE 0]

\* `x as u64`: the low n limbs
Truncate(a, n) == [i \in 1..n |-> a[i]]

RECURSIVE MulCarry(_, _, _, _)
MulCarry(a, m, i, carry) ==
    IF i > Len(a) THEN <<>>
    ELSE LET p == a[i] * m + carry
         IN  <<p % Base>> \o MulCarry(a, m, i + 1, p \div Base)

\* a * m in the width of a (wrapping), m a small natural
WrappingMul(a, m) == MulCarry(a, m, 1, 0)

RECURSIVE DivRem(_, _, _, _)
DivRem(a, d, i, rem) ==
    IF i = 0 THEN <<>>
    ELSE LET cur == rem * Base + a[i]
         IN  DivRem(a, d, i - 1, cur % d) \o <<cur \div d>>

\* floor(a / d), d a small positive natural
DivSmall(a, d) == DivRem(a, d, Len(a), 0)

RECURSIVE AddCarry(_, _, _, _)
AddCarry(a, b, i, carry) ==
    IF i > Len(a) THEN <<>>
    ELSE LET s == a[i] + b[i] + carry
         IN  <<s % Base>> \o AddCarry(a, b, i + 1, s \div Base)

\* a + b in the width of a (wrapping)
WrappingAdd(a, b) == AddCarry(a, b, 1, 0)

RECURSIVE LeqFrom(_, _, _)
LeqFrom(a, b, i) ==
    IF i = 0 THEN TRUE
    ELSE IF a[i] # b[i] THEN a[i] < b[i]
    ELSE LeqFrom(a, b, i - 1)

\* a <= b for unsigned values of equal width
Leq(a, b) == LeqFrom(a, b, Len(a))

\* the sign bit of a two's complement value
IsNegative(a) == a[Len(a)] >= Base \div 2

\* i64 addition leaves the range exactly when both operands have one sign and
\* the wrapped sum has the other
AddOverflows(a, b) ==
    /\ IsNegative(a) = IsNegative(b)
    /\ IsNegative(WrappingAdd(a, b)) # IsNegative(a)

(***************************************************************************)
(* Identities, strings and the inputs of the calls                         *)
(***************************************************************************)
\* signing identities (owner, borrower, authority, liquidator)
Keys == {"K1", "K2"}

\* strings are their UTF-8 bytes
AssetIds == {<<82, 49>>, <<82, 50>>}

AssetTypes == {<<72>>}

MetadataUris == {<<117, 114, 105>>}

\* the (valuation, owner) pairs of the initialize_asset calls: the ceilings
\* of valuation 3 are 1, 1, 0 at 50%, 35%, 20%, those of valuation 2 are 1, 0, 0
InitProfiles == {<<U64(3), "K1">>, <<U64(2), "K2">>}

\* how many accounts the store may hold
MaxAccounts == 3

\* u8 arguments of update_risk_score: both sides of the liquidation
\* threshold, the first value past the range, and the largest u8
RiskInputs == {80, 81, 101, 255}

LoanAmounts == {U64(1), U64(2)}

InterestRates == {U64(500)}

\* i64 durations: thirty days
Durations == {U64(2592000)}

\* i64 durations whose sum with the clock leaves the i64 range
ExtremeDurations == {I64Max}

\* Clock::get()?.unix_timestamp
Timestamps == {U64(1700000000)}

(***************************************************************************)
(* Program-derived addresses                                               *)
(***************************************************************************)
\* Whether the hash of (seeds, nonce, program id) is a point of the curve: a
\* fixed function of its arguments, here a fixed table.
IsOnCurve(seeds, nonce) ==
    \/ Len(seeds) = 2 /\ seeds[2] = <<82, 50>> /\ nonce = 255
    \/ Len(seeds) = 3 /\ seeds[3] = "K2" /\ nonce >= 254

\* Pubkey::create_program_address: the address of seeds and one nonce
CreateProgramAddress(seeds, nonce) == [seeds |-> seeds, bump |-> nonce]

RECURSIVE FindBump(_, _)
FindBump(seeds, nonce) ==
    IF nonce < 0 THEN -1
    ELSE IF ~IsOnCurve(seeds, nonce) THEN nonce
    ELSE FindBump(seeds, nonce - 1)

\* Pubkey::find_program_address: the first nonce from 255 down that is off
\* the curve, and its address
FindProgramAddress(seeds) ==
    LET b == FindBump(seeds, 255)
    IN  [address |-> CreateProgramAddress(seeds, b), bump |-> b]

AssetSeeds(asset_id) == <<"asset", asset_id>>

LoanSeeds(asset_key, borrower) == <<"loan", asset_key, borrower>>

AssetAddresses == {FindProgramAddress(AssetSeeds(id)).address : id \in AssetIds}

LoanAddresses ==
    {FindProgramAddress(LoanSeeds(a, k)).address : a \in AssetAddresses, k \in Keys}

Addresses == AssetAddresses \cup LoanAddresses

(***************************************************************************)
(* Accounts                                                                *)
(***************************************************************************)
\* an address that holds no account
Empty == [kind |-> "Empty"]

AssetSpace == 8 + 32 + 32 + 8 + 200 + 32 + 1 + 1 + 1

\* the Borsh size of an Asset behind its 8-byte discriminator
AssetSize(a) ==
    8 + (4 + Len(a.asset_id)) + (4 + Len(a.asset_type)) + 8
      + (4 + Len(a.metadata_uri)) + 32 + 1 + 1 + 1

\* a freshly allocated Asset account: every byte zero
ZeroAsset ==
    [kind |-> "Asset", asset_id |-> <<>>, asset_type |-> <<>>,
     valuation |-> Zero(U64Limbs), metadata_uri |-> <<>>, owner |-> "",
     is_active |-> FALSE, risk_score |-> 0, bump |-> 0]

\* a freshly allocated Loan account: every byte zero
ZeroLoan ==
    [kind |-> "Loan", borrower |-> "", asset |-> "", principal |-> Zero(U64Limbs),
     interest_rate |-> Zero(U64Limbs), start_time |-> Zero(U64Limbs),
     end_time |-> Zero(U64Limbs), is_active |-> FALSE, repaid |-> FALSE,
     liquidated |-> FALSE, risk_score_at_creation |-> 0, bump |-> 0]

\* Account<'info, T>: the account exists and carries T's discriminator
LoadAccount(st, key, kind) ==
    IF st[key].kind = "Empty" THEN "AccountNotInitialized"
    ELSE IF st[key].kind # kind THEN "AccountDiscriminatorMismatch"
    ELSE "Ok"

\* seeds = [b"asset", asset.asset_id], bump = asset.bump
AssetSeedsOk(st, key) ==
    CreateProgramAddress(AssetSeeds(st[key].asset_id), st[key].bump) = key

\* seeds = [b"loan", loan.asset, loan.borrower], bump = loan.bump
LoanSeedsOk(st, key) ==
    CreateProgramAddress(LoanSeeds(st[key].asset, st[key].borrower), st[key].bump) = key

(***************************************************************************)
(* initialize_asset                                                        *)
(***************************************************************************)
\* init_if_needed in place of init: an occupied asset address is accepted
InitializeAssetAccounts_InitIfNeeded(st, asset_key, asset_id) ==
    IF asset_key # FindProgramAddress(AssetSeeds(asset_id)).address THEN "ConstraintSeeds"
    ELSE "Ok"

\* #[account(init, seeds = [b"asset", asset_id], bump)]: the account passed
\* is the derived address, and the system program allocates it only when
\* nothing is there yet
InitializeAssetAccounts(st, asset_key, asset_id) ==
    IF asset_key # FindProgramAddress(AssetSeeds(asset_id)).address THEN "ConstraintSeeds"
    ELSE IF st[asset_key].kind # "Empty" THEN "AlreadyInUse"
    ELSE "Ok"

\* initialize_asset without the default risk score: the field keeps the zero
\* of the fresh account
InitializedAsset_NoDefaultRisk(asset_id, asset_type, valuation, metadata_uri, owner) ==
    [ZeroAsset EXCEPT !.asset_id = asset_id,
                      !.asset_type = asset_type,
                      !.valuation = valuation,
                      !.metadata_uri = metadata_uri,
                      !.owner = owner,
                      !.is_active = TRUE,
                      !.bump = FindProgramAddress(AssetSeeds(asset_id)).bump]

InitializedAsset(asset_id, asset_type, valuation, metadata_uri, owner) ==
    [ZeroAsset EXCEPT !.asset_id = asset_id,
                      !.asset_type = asset_type,
                      !.valuation = valuation,
                      !.metadata_uri = metadata_uri,
                      !.owner = owner,
                      !.is_active = TRUE,
                      !.risk_score = 50,
                      !.bump = FindProgramAddress(AssetSeeds(asset_id)).bump]

InitializeAssetResult(st, asset_key, asset_id, asset_type, valuation, metadata_uri, owner) ==
    LET acc == InitializeAssetAccounts(st, asset_key, asset_id)
    IN  IF acc # "Ok" THEN acc
        ELSE IF AssetSize(InitializedAsset(asset_id, asset_type, valuation,
                                           metadata_uri, owner)) > AssetSpace
             THEN "AccountDidNotSerialize"
        ELSE "Ok"

InitializeAssetStore(st, asset_key, asset_id, asset_type, valuation, metadata_uri, owner) ==
    IF InitializeAssetResult(st, asset_key, asset_id, asset_type, valuation,
                             metadata_uri, owner) = "Ok"
    THEN [st EXCEPT ![asset_key] =
              InitializedAsset(asset_id, asset_type, valuation, metadata_uri, owner)]
    ELSE st

\* the bound of the model: a call that allocates needs room in the store
HasRoom(st) == Cardinality({k \in Addresses : st[k].kind # "Empty"}) < MaxAccounts

initialize_asset ==
    \E asset_key \in AssetAddresses, asset_id \in AssetIds, asset_type \in AssetTypes,
       profile \in InitProfiles, metadata_uri \in MetadataUris :
      LET valuation == profile[1]
          owner     == profile[2]
          result    == InitializeAssetResult(store, asset_key, asset_id, asset_type,
                                             valuation, metadata_uri, owner)
      IN
        /\ result = "Ok" => HasRoom(store)
        /\ store' = InitializeAssetStore(store, asset_key, asset_id, asset_type,
                                         valuation, metadata_uri, owner)
        /\ last' = [op |-> "initialize_asset", result |-> result]
        /\ UNCHANGED <<calc, overflow_checks>>

(***************************************************************************)
(* update_risk_score                                                       *)
(***************************************************************************)
UpdateRiskScoreAccounts(st, asset_key) ==
    LET acc == LoadAccount(st, asset_key, "Asset")
    IN  IF acc # "Ok" THEN acc
        ELSE IF ~AssetSeedsOk(st, asset_key) THEN "ConstraintSeeds"
        ELSE "Ok"

\* update_risk_score without require!(new_risk_score <= 100)
UpdateRiskScoreResult_NoRangeCheck(st, asset_key, new_risk_score) ==
    LET acc == UpdateRiskScoreAccounts(st, asset_key)
    IN  IF acc # "Ok" THEN acc
        ELSE IF ~st[asset_key].is_active THEN "AssetInactive"
        ELSE "Ok"

UpdateRiskScoreResult(st, asset_key, new_risk_score) ==
    LET acc == UpdateRiskScoreAccounts(st, asset_key)
    IN  IF acc # "Ok" THEN acc
        ELSE IF ~st[asset_key].is_active THEN "AssetInactive"
        ELSE IF ~(new_risk_score <= 100) THEN "InvalidRiskScore"
        ELSE "Ok"

\* update_risk_score that also resets the valuation
UpdateRiskScoreStore_ResetsValuation(st, asset_key, new_risk_score) ==
    IF UpdateRiskScoreResult(st, asset_key, new_risk_score) = "Ok"
    THEN [st EXCEPT ![asset_key].risk_score = new_risk_score,
                    ![asset_key].valuation = Zero(U64Limbs)]
    ELSE st

UpdateRiskScoreStore(st, asset_key, new_risk_score) ==
    IF UpdateRiskScoreResult(st, asset_key, new_risk_score) = "Ok"
    THEN [st EXCEPT ![asset_key].risk_score = new_risk_score]
    ELSE st

\* the call turned away unless the authority is the owner of the asset
UpdateRiskScoreSigned_OwnerOnly(st, asset_key, authority, new_risk_score) ==
    IF UpdateRiskScoreAccounts(st, asset_key) = "Ok" /\ st[asset_key].owner # authority
    THEN [result |-> "ConstraintHasOne", store |-> st]
    ELSE [result |-> UpdateRiskScoreResult(st, asset_key, new_risk_score),
          store |-> UpdateRiskScoreStore(st, asset_key, new_risk_score)]

\* the whole call with its signer: authority is a Signer with no other
\* constraint, and the handler does not read it
UpdateRiskScoreSigned(st, asset_key, authority, new_risk_score) ==
    [result |-> UpdateRiskScoreResult(st, asset_key, new_risk_score),
     store |-> UpdateRiskScoreStore(st, asset_key, new_risk_score)]

update_risk_score ==
    \E asset_key \in AssetAddresses, new_risk_score \in RiskInputs, authority \in Keys :
        LET call == UpdateRiskScoreSigned(store, asset_key, authority, new_risk_score)
        IN  /\ store' = call.store
            /\ last' = [op |-> "update_risk_score", signer |-> authority,
                        result |-> call.result]
            /\ UNCHANGED <<calc, overflow_checks>>

(***************************************************************************)
(* create_loan                                                             *)
(***************************************************************************)
\* the tier table with the ceilings of the two middle tiers exchanged
MaxLtv_TiersSwapped(risk_score) ==
    IF risk_score >= 0 /\ risk_score <= 20 THEN 70
    ELSE IF risk_score >= 21 /\ risk_score <= 40 THEN 60
    ELSE IF risk_score >= 41 /\ risk_score <= 60 THEN 35
    ELSE IF risk_score >= 61 /\ risk_score <= 80 THEN 50
    ELSE IF risk_score >= 81 /\ risk_score <= 100 THEN 20
    ELSE 0

\* the match on asset.risk_score (a u8)
MaxLtv(risk_score) ==
    IF risk_score >= 0 /\ risk_score <= 20 THEN 70
    ELSE IF risk_score >= 21 /\ risk_score <= 40 THEN 60
    ELSE IF risk_score >= 41 /\ risk_score <= 60 THEN 50
    ELSE IF risk_score >= 61 /\ risk_score <= 80 THEN 35
    ELSE IF risk_score >= 81 /\ risk_score <= 100 THEN 20
    ELSE 0

\* the product taken in u64, without the widening to u128
MaxLoan_NoWidening(valuation, risk_score) ==
    DivSmall(WrappingMul(valuation, MaxLtv(risk_score)), 100)

\* (asset.valuation as u128 * max_ltv as u128 / 100) as u64
MaxLoan(valuation, risk_score) ==
    Truncate(DivSmall(WrappingMul(Widen(valuation, U128Limbs), MaxLtv(risk_score)), 100),
             U64Limbs)

\* init_if_needed in place of init: an occupied loan address is accepted
CreateLoanAccounts_InitIfNeeded(st, loan_key, asset_key, borrower) ==
    LET acc == LoadAccount(st, asset_key, "Asset")
    IN  IF acc # "Ok" THEN acc
        ELSE IF loan_key # FindProgramAddress(LoanSeeds(asset_key, borrower)).address
             THEN "ConstraintSeeds"
        ELSE IF ~AssetSeedsOk(st, asset_key) THEN "ConstraintSeeds"
        ELSE "Ok"

\* asset is loaded first, then the init constraint of loan runs (derived
\* address, then allocation), then the seeds constraint of asset
CreateLoanAccounts(st, loan_key, asset_key, borrower) ==
    LET acc == LoadAccount(st, asset_key, "Asset")
    IN  IF acc # "Ok" THEN acc
        ELSE IF loan_key # FindProgramAddress(LoanSeeds(asset_key, borrower)).address
             THEN "ConstraintSeeds"
        ELSE IF st[loan_key].kind # "Empty" THEN "AlreadyInUse"
        ELSE IF ~AssetSeedsOk(st, asset_key) THEN "ConstraintSeeds"
        ELSE "Ok"

\* create_loan without the comparison with max_loan
CreateLoanResult_NoCeiling(st, checks, loan_key, asset_key, borrower, loan_amount, duration, now) ==
    LET acc == CreateLoanAccounts(st, loan_key, asset_key, borrower)
    IN  IF acc # "Ok" THEN acc
        ELSE IF checks /\ AddOverflows(now, duration) THEN "Panic"
        ELSE "Ok"

\* loan.start_time + duration: a panic where the build checks overflow, the
\* wrapped sum where it does not
CreateLoanResult(st, checks, loan_key, asset_key, borrower, loan_amount, duration, now) ==
    LET acc == CreateLoanAccounts(st, loan_key, asset_key, borrower)
    IN  IF acc # "Ok" THEN acc
        ELSE IF ~Leq(loan_amount, MaxLoan(st[asset_key].valuation, st[asset_key].risk_score))
             THEN "LoanTooHigh"
        ELSE IF checks /\ AddOverflows(now, duration) THEN "Panic"
        ELSE "Ok"

\* create_loan that records the default risk score in place of the asset's
CreatedLoan_SnapshotsDefault(st, asset_key, borrower, loan_amount, interest_rate, duration, now) ==
    [ZeroLoan EXCEPT !.borrower = borrower,
                     !.asset = asset_key,
                     !.principal = loan_amount,
                     !.interest_rate = interest_rate,
                     !.start_time = now,
                     !.end_time = WrappingAdd(now, duration),
                     !.is_active = TRUE,
                     !.risk_score_at_creation = 50,
                     !.bump = FindProgramAddress(LoanSeeds(asset_key, borrower)).bump]

\* create_loan that stores the first nonce tried in place of the bump found
CreatedLoan_FirstNonce(st, asset_key, borrower, loan_amount, interest_rate, duration, now) ==
    [ZeroLoan EXCEPT !.borrower = borrower,
                     !.asset = asset_key,
                     !.principal = loan_amount,
                     !.interest_rate = interest_rate,
                     !.start_time = now,
                     !.end_time = WrappingAdd(now, duration),
                     !.is_active = TRUE,
                     !.risk_score_at_creation = st[asset_key].risk_score,
                     !.bump = 255]


CreatedLoan(st, asset_key, borrower, loan_amount, interest_rate, duration, now) ==
    [ZeroLoan EXCEPT !.borrower = borrower,
                     !.asset = asset_key,
                     !.principal = loan_amount,
                     !.interest_rate = interest_rate,
                     !.start_time = now,
                     !.end_time = WrappingAdd(now, duration),
                     !.is_active = TRUE,
                     !.risk_score_at_creation = st[asset_key].risk_score,
                     !.bump = FindProgramAddress(LoanSeeds(asset_key, borrower)).bump]

\* create_loan whose failure in the handler leaves behind the loan account
\* that the init constraint allocated
CreateLoanStore_KeepsAllocation(st, checks, loan_key, asset_key, borrower, loan_amount, interest_rate, duration, now) ==
    IF CreateLoanResult(st, checks, loan_key, asset_key, borrower, loan_amount,
                        duration, now) = "Ok"
    THEN [st EXCEPT ![loan_key] = CreatedLoan(st, asset_key, borrower, loan_amount,
                                              interest_rate, duration, now)]
    ELSE IF CreateLoanAccounts(st, loan_key, asset_key, borrower) = "Ok"
    THEN [st EXCEPT ![loan_key] = ZeroLoan]
    ELSE st

CreateLoanStore(st, checks, loan_key, asset_key, borrower, loan_amount, interest_rate, duration, now) ==
    IF CreateLoanResult(st, checks, loan_key, asset_key, borrower, loan_amount,
                        duration, now) = "Ok"
    THEN [st EXCEPT ![loan_key] = CreatedLoan(st, asset_key, borrower, loan_amount,
                                              interest_rate, duration, now)]
    ELSE st

\* the create_loan calls with durations drawn from one set; the caller
\* passes the loan address of the asset and of any identity
CreateLoanCalls(durations) ==
    \E asset_key \in AssetAddresses, borrower \in Keys, seed_key \in Keys,
       loan_amount \in LoanAmounts, interest_rate \in InterestRates,
       duration \in durations, now \in Timestamps :
      LET loan_key == FindProgramAddress(LoanSeeds(asset_key, seed_key)).address
          result   == CreateLoanResult(store, overflow_checks, loan_key, asset_key,
                                       borrower, loan_amount, duration, now)
      IN
        /\ result = "Ok" => HasRoom(store)
        /\ store' = CreateLoanStore(store, overflow_checks, loan_key, asset_key, borrower,
                                    loan_amount, interest_rate, duration, now)
        /\ last' = [op |-> "create_loan", result |-> result]
        /\ UNCHANGED <<calc, overflow_checks>>

create_loan == CreateLoanCalls(Durations)

(***************************************************************************)
(* repay_loan                                                              *)
(***************************************************************************)
RepayLoanAccounts(st, loan_key) ==
    LET acc == LoadAccount(st, loan_key, "Loan")
    IN  IF acc # "Ok" THEN acc
        ELSE IF ~LoanSeedsOk(st, loan_key) THEN "ConstraintSeeds"
        ELSE "Ok"

\* repay_loan turned away while the loan's asset is eligible for liquidation
RepayLoanResult_OnlyAtLowRisk(st, loan_key) ==
    LET acc == RepayLoanAccounts(st, loan_key)
    IN  IF acc # "Ok" THEN acc
        ELSE IF ~st[loan_key].is_active THEN "LoanInactive"
        ELSE IF st[st[loan_key].asset].risk_score > 80 THEN "NotEligibleForRepayment"
        ELSE "Ok"


RepayLoanResult(st, loan_key) ==
    LET acc == RepayLoanAccounts(st, loan_key)
    IN  IF acc # "Ok" THEN acc
        ELSE IF ~st[loan_key].is_active THEN "LoanInactive"
        ELSE "Ok"

\* repay_loan closing every loan of the same asset
RepayLoanStore_ClosesAssetLoans(st, loan_key) ==
    IF RepayLoanResult(st, loan_key) = "Ok"
    THEN [k \in Addresses |->
             IF st[k].kind = "Loan" /\ st[k].asset = st[loan_key].asset
             THEN [st[k] EXCEPT !.is_active = FALSE, !.repaid = TRUE]
             ELSE st[k]]
    ELSE st

\* repay_loan that sets repaid and forgets to clear is_active
RepayLoanStore_StaysActive(st, loan_key) ==
    IF RepayLoanResult(st, loan_key) = "Ok"
    THEN [st EXCEPT ![loan_key].repaid = TRUE]
    ELSE st

RepayLoanStore(st, loan_key) ==
    IF RepayLoanResult(st, loan_key) = "Ok"
    THEN [st EXCEPT ![loan_key].is_active = FALSE, ![loan_key].repaid = TRUE]
    ELSE st

\* repay_loan called for one loan address, by any signer
RepayLoanOf(loan_key) ==
    \E borrower \in Keys :
        /\ store' = RepayLoanStore(store, loan_key)
        /\ last' = [op |-> "repay_loan", signer |-> borrower,
                    result |-> RepayLoanResult(store, loan_key)]
        /\ UNCHANGED <<calc, overflow_checks>>

repay_loan == \E loan_key \in LoanAddresses : RepayLoanOf(loan_key)

(***************************************************************************)
(* liquidate_loan                                                          *)
(***************************************************************************)
LiquidateLoanAccounts(st, loan_key, asset_key) ==
    LET loan_acc  == LoadAccount(st, loan_key, "Loan")
        asset_acc == LoadAccount(st, asset_key, "Asset")
    IN  IF loan_acc # "Ok" THEN loan_acc
        ELSE IF asset_acc # "Ok" THEN asset_acc
        ELSE IF ~LoanSeedsOk(st, loan_key) THEN "ConstraintSeeds"
        ELSE IF ~AssetSeedsOk(st, asset_key) THEN "ConstraintSeeds"
        ELSE "Ok"

\* liquidate_loan without require!(loan.is_active)
LiquidateLoanResult_NoActiveCheck(st, loan_key, asset_key) ==
    LET acc == LiquidateLoanAccounts(st, loan_key, asset_key)
    IN  IF acc # "Ok" THEN acc
        ELSE IF ~(st[asset_key].risk_score > 80) THEN "NotEligibleForLiquidation"
        ELSE "Ok"

\* liquidate_loan with risk_score >= 80 in place of > 80
LiquidateLoanResult_AtLeast80(st, loan_key, asset_key) ==
    LET acc == LiquidateLoanAccounts(st, loan_key, asset_key)
    IN  IF acc # "Ok" THEN acc
        ELSE IF ~st[loan_key].is_active THEN "LoanInactive"
        ELSE IF ~(st[asset_key].risk_score >= 80) THEN "NotEligibleForLiquidation"
        ELSE "Ok"

LiquidateLoanResult(st, loan_key, asset_key) ==
    LET acc == LiquidateLoanAccounts(st, loan_key, asset_key)
    IN  IF acc # "Ok" THEN acc
        ELSE IF ~st[loan_key].is_active THEN "LoanInactive"
        ELSE IF ~(st[asset_key].risk_score > 80) THEN "NotEligibleForLiquidation"
        ELSE "Ok"

\* liquidate_loan that closes the loan without setting liquidated
LiquidateLoanStore_ForgetsFlag(st, loan_key, asset_key) ==
    IF LiquidateLoanResult(st, loan_key, asset_key) = "Ok"
    THEN [st EXCEPT ![loan_key].is_active = FALSE]
    ELSE st


LiquidateLoanStore(st, loan_key, asset_key) ==
    IF LiquidateLoanResult(st, loan_key, asset_key) = "Ok"
    THEN [st EXCEPT ![loan_key].is_active = FALSE, ![loan_key].liquidated = TRUE]
    ELSE st

liquidate_loan ==
    \E loan_key \in LoanAddresses, asset_key \in AssetAddresses, liquidator \in Keys :
        /\ store' = LiquidateLoanStore(store, loan_key, asset_key)
        /\ last' = [op |-> "liquidate_loan",
                    result |-> LiquidateLoanResult(store, loan_key, asset_key)]
        /\ UNCHANGED <<calc, overflow_checks>>

(***************************************************************************)
(* The program                                                             *)
(***************************************************************************)
\* the last call and its outcome, with the signer where the handler keeps
\* no trace of it in the account (update_risk_score, repay_loan)
NoCall == [op |-> "none", result |-> "none"]

Idle == [phase |-> "off"]

EmptyStore == [a \in Addresses |-> Empty]

\* the deployed program, built with overflow checks
Init ==
    /\ store = EmptyStore
    /\ last = NoCall
    /\ calc = Idle
    /\ overflow_checks = TRUE

Next ==
    \/ initialize_asset
    \/ update_risk_score
    \/ create_loan
    \/ repay_loan
    \/ liquidate_loan

Spec == Init /\ [][Next]_vars

\* the program where, for every loan address, repay_loan keeps being called
SpecRepayFair == Spec /\ \A k \in LoanAddresses : WF_vars(RepayLoanOf(k))

(***************************************************************************)
(* create_loan with durations past the i64 range, on either build          *)
(***************************************************************************)
create_loan_long == CreateLoanCalls(ExtremeDurations)

InitAnyBuild ==
    /\ store = EmptyStore
    /\ last = NoCall
    /\ calc = Idle
    /\ overflow_checks \in BOOLEAN

NextLong ==
    \/ initialize_asset
    \/ create_loan
    \/ create_loan_long

SpecLong == InitAnyBuild /\ [][NextLong]_vars

(***************************************************************************)
(* The loan ceiling as a function of valuation and risk score              *)
(***************************************************************************)
\* 2^56 and 2^58, on both sides of 2^64 / 70
LtvValuations ==
    {U64(0), U64(1), U64(3), U64(99), U64(1000000),
     <<0, 0, 0, 2^8>>, <<0, 0, 0, 2^10>>, <<Base - 2, Base - 1, Base - 1, Base - 1>>,
     U64Max}

RiskScores == 0..100

InitLtv ==
    /\ store = EmptyStore
    /\ last = NoCall
    /\ overflow_checks = TRUE
    /\ calc \in {[phase |-> "input", valuation |-> v, risk_a |-> a, risk_b |-> b,
                  max_a |-> Zero(U64Limbs), max_b |-> Zero(U64Limbs)] :
                 v \in LtvValuations, a \in RiskScores, b \in RiskScores}
    /\ calc.risk_a <= calc.risk_b

\* the ceiling of one valuation at two risk scores
compute_max_loan ==
    /\ calc.phase = "input"
    /\ calc' = [calc EXCEPT !.phase = "done",
                            !.max_a = MaxLoan(calc.valuation, calc.risk_a),
                            !.max_b = MaxLoan(calc.valuation, calc.risk_b)]
    /\ UNCHANGED <<store, last, overflow_checks>>

SpecLtv == InitLtv /\ [][compute_max_loan]_vars

(***************************************************************************)
(* Account data: what the program stores (Borsh behind an 8-byte            *)
(* discriminator, in an account of fixed space) and what the backend        *)
(* (backend/src/solana_client.rs) reads back from it                        *)
(***************************************************************************)
\* u32::to_le_bytes of a length below 2^31
U32Bytes(n) == <<n % 256, (n \div 256) % 256, (n \div 65536) % 256, n \div 16777216>>

\* u32::from_le_bytes as usize; a value from 2^31 on is kept as 2^31 - 1,
\* past the end of every buffer of the model
U32FromBytes(b) ==
    IF b[4] >= 128 THEN 2147483647
    ELSE b[1] + 256 * b[2] + 65536 * b[3] + 16777216 * b[4]

\* to_le_bytes of a 64-bit value
LeBytes(a) ==
    [i \in 1..(2 * Len(a)) |-> IF i % 2 = 1 THEN a[(i + 1) \div 2] % 256
                                            ELSE a[i \div 2] \div 256]

\* u64::from_le_bytes / i64::from_le_bytes
FromLeBytes(b) == [i \in 1..(Len(b) \div 2) |-> b[2 * i - 1] + 256 * b[2 * i]]

BoolByte(x) == IF x THEN 1 ELSE 0

\* a Borsh String: 4-byte length, then the bytes
StringBytes(str) == U32Bytes(Len(str)) \o str

\* the 32 bytes of a signing identity
KeyBytes(k) == [i \in 1..32 |-> IF i = 1 THEN (IF k = "K1" THEN 11 ELSE 12) ELSE 17]

\* the 32 bytes of a program-derived address: the hash of its seeds and
\* nonce, here bytes that differ wherever seeds or nonce differ
AddressBytes(a) ==
    IF Len(a.seeds) = 2
    THEN [i \in 1..32 |-> IF i = 1 THEN 160
                          ELSE IF i = 2 THEN a.bump
                          ELSE IF i - 2 <= Len(a.seeds[2]) THEN a.seeds[2][i - 2]
                          ELSE 0]
    ELSE [i \in 1..32 |-> IF i = 1 THEN 176
                          ELSE IF i = 2 THEN a.bump
                          ELSE IF i = 3 THEN KeyBytes(a.seeds[3])[1]
                          ELSE IF i = 4 THEN a.seeds[2].bump
                          ELSE IF i - 4 <= Len(a.seeds[2].seeds[2])
                               THEN a.seeds[2].seeds[2][i - 4]
                          ELSE 0]

\* sha256("account:Asset")[..8] and sha256("account:Loan")[..8]
AssetDiscriminator == <<234, 180, 241, 252, 139, 224, 160, 8>>

LoanDiscriminator == <<20, 195, 70, 117, 165, 227, 182, 1>>

LoanSpace == 8 + 32 + 32 + 8 + 8 + 8 + 8 + 1 + 1 + 1 + 1 + 8

\* the fields of Asset in declared order
AssetBorsh(a) ==
    StringBytes(a.asset_id) \o StringBytes(a.asset_type) \o LeBytes(a.valuation)
      \o StringBytes(a.metadata_uri) \o KeyBytes(a.owner)
      \o <<BoolByte(a.is_active), a.risk_score, a.bump>>

\* the fields of Loan, with the liquidated flag written before the repaid flag
LoanBorsh_FlagsSwapped(l) ==
    KeyBytes(l.borrower) \o AddressBytes(l.asset) \o LeBytes(l.principal)
      \o LeBytes(l.interest_rate) \o LeBytes(l.start_time) \o LeBytes(l.end_time)
      \o <<BoolByte(l.is_active), BoolByte(l.liquidated), BoolByte(l.repaid),
           l.risk_score_at_creation, l.bump>>

\* the fields of Loan in declared order
LoanBorsh(l) ==
    KeyBytes(l.borrower) \o AddressBytes(l.asset) \o LeBytes(l.principal)
      \o LeBytes(l.interest_rate) \o LeBytes(l.start_time) \o LeBytes(l.end_time)
      \o <<BoolByte(l.is_active), BoolByte(l.repaid), BoolByte(l.liquidated),
           l.risk_score_at_creation, l.bump>>

\* the data of an account of n bytes: the serialised part, then the zeros
\* the allocation left
Pad(b, n) == b \o [i \in 1..(n - Len(b)) |-> 0]

AssetData(a) == Pad(AssetDiscriminator \o AssetBorsh(a), AssetSpace)

LoanData(l) == Pad(LoanDiscriminator \o LoanBorsh(l), LoanSpace)

\* data[cursor..cursor + n] is in range (cursor counts from 0)
InRange(data, cursor, n) == n <= Len(data) - cursor

Slice(data, cursor, n) == [i \in 1..n |-> data[cursor + i]]

\* the length of the sequence a byte opens, 0 for a byte that opens none
LeadLength(c) ==
    IF c >= 194 /\ c <= 223 THEN 2
    ELSE IF c >= 224 /\ c <= 239 THEN 3
    ELSE IF c >= 240 /\ c <= 244 THEN 4
    ELSE 0

IsContinuation(c) == c >= 128 /\ c <= 191

\* the byte after a lead byte: no overlong form, no surrogate, nothing past
\* U+10FFFF
SecondOk(lead, c) ==
    /\ c >= (IF lead = 224 THEN 160 ELSE IF lead = 240 THEN 144 ELSE 128)
    /\ c <= (IF lead = 237 THEN 159 ELSE IF lead = 244 THEN 143 ELSE 191)

\* String::from_utf8 accepts the bytes: every byte is ASCII, or a lead byte
\* with its continuation bytes behind it, or a continuation byte of a lead
\* byte before it
IsUtf8(b) ==
    \A i \in 1..Len(b) :
        IF b[i] <= 127 THEN TRUE
        ELSE IF IsContinuation(b[i])
             THEN \E d \in 1..3 :
                      /\ i - d >= 1
                      /\ LeadLength(b[i - d]) > d
                      /\ \A j \in (i - d + 1)..(i - 1) : IsContinuation(b[j])
        ELSE /\ LeadLength(b[i]) > 0
             /\ i + LeadLength(b[i]) - 1 <= Len(b)
             /\ SecondOk(b[i], b[i + 1])
             /\ \A j \in (i + 2)..(i + LeadLength(b[i]) - 1) : IsContinuation(b[j])

\* a length-prefixed string at the cursor: slicing past the end panics, bytes
\* that are not UTF-8 are an error
ReadString(data, cursor) ==
    IF ~InRange(data, cursor, 4) THEN [result |-> "Panic"]
    ELSE LET n == U32FromBytes(Slice(data, cursor, 4))
         IN  IF ~InRange(data, cursor + 4, n) THEN [result |-> "Panic"]
             ELSE IF ~IsUtf8(Slice(data, cursor + 4, n)) THEN [result |-> "Err"]
             ELSE [result |-> "Ok", value |-> Slice(data, cursor + 4, n),
                   cursor |-> cursor + 4 + n]

\* the fixed-width fields that follow metadata_uri at the cursor
AssetAccountTail(data, cursor, asset_id, asset_type, valuation, metadata_uri) ==
    IF \/ ~InRange(data, cursor, 32)
       \/ ~InRange(data, cursor + 32, 1)
       \/ ~InRange(data, cursor + 33, 1)
       \/ ~InRange(data, cursor + 34, 8)
       \/ ~InRange(data, cursor + 42, 1)
    THEN [result |-> "Panic"]
    ELSE [result |-> "Ok",
          account |-> [asset_id |-> asset_id,
                       asset_type |-> asset_type,
                       valuation |-> valuation,
                       metadata_uri |-> metadata_uri,
                       owner |-> Slice(data, cursor, 32),
                       is_active |-> data[cursor + 32 + 1] # 0,
                       risk_score |-> data[cursor + 33 + 1],
                       last_update |-> FromLeBytes(Slice(data, cursor + 34, 8)),
                       bump |-> data[cursor + 42 + 1]]]

\* AssetAccount::from_bytes
AssetAccountFromBytes(data) ==
    LET id == ReadString(data, 8)
    IN  IF id.result # "Ok" THEN [result |-> id.result]
        ELSE LET type == ReadString(data, id.cursor)
             IN  IF type.result # "Ok" THEN [result |-> type.result]
                 ELSE IF ~InRange(data, type.cursor, 8) THEN [result |-> "Panic"]
                 ELSE LET uri == ReadString(data, type.cursor + 8)
                      IN  IF uri.result # "Ok" THEN [result |-> uri.result]
                          ELSE AssetAccountTail(data, uri.cursor, id.value, type.value,
                                                FromLeBytes(Slice(data, type.cursor, 8)),
                                                uri.value)

\* LoanAccount::from_bytes: every field has a fixed place
LoanAccountFromBytes(data) ==
    IF \/ ~InRange(data, 8, 32)
       \/ ~InRange(data, 40, 32)
       \/ ~InRange(data, 72, 8)
       \/ ~InRange(data, 80, 8)
       \/ ~InRange(data, 88, 8)
       \/ ~InRange(data, 96, 8)
       \/ ~InRange(data, 104, 1)
       \/ ~InRange(data, 105, 1)
       \/ ~InRange(data, 106, 1)
       \/ ~InRange(data, 107, 1)
       \/ ~InRange(data, 108, 1)
    THEN [result |-> "Panic"]
    ELSE [result |-> "Ok",
          account |-> [borrower |-> Slice(data, 8, 32),
                       asset |-> Slice(data, 40, 32),
                       principal |-> FromLeBytes(Slice(data, 72, 8)),
                       interest_rate |-> FromLeBytes(Slice(data, 80, 8)),
                       start_time |-> FromLeBytes(Slice(data, 88, 8)),
                       end_time |-> FromLeBytes(Slice(data, 96, 8)),
                       is_active |-> data[104 + 1] # 0,
                       repaid |-> data[105 + 1] # 0,
                       liquidated |-> data[106 + 1] # 0,
                       risk_score_at_creation |-> data[107 + 1],
                       bump |-> data[108 + 1]]]

(***************************************************************************)
(* Reading account data back: buffers as the program stores them, cut       *)
(* short, with a foreign tag or with damaged strings, each decoded as an    *)
(* Asset and as a Loan                                                      *)
(***************************************************************************)
\* asset ids: those of the calls, the empty string and a two-byte character
CodecAssetIds == AssetIds \cup {<<>>, <<195, 169>>}

CodecProfiles == InitProfiles \cup {<<U64Max, "K1">>}

\* Assets as initialize_asset and update_risk_score leave them, and the
\* same with the active flag cleared
CodecAssets ==
    {[InitializedAsset(id, type, p[1], uri, p[2]) EXCEPT !.risk_score = rs,
                                                         !.is_active = act] :
        id \in CodecAssetIds, type \in AssetTypes, p \in CodecProfiles,
        uri \in MetadataUris, rs \in {0, 50, 100}, act \in BOOLEAN}

\* an Asset whose strings fill the space of the account to the last byte
FullAsset ==
    InitializedAsset([i \in 1..32 |-> 65], [i \in 1..20 |-> 84], U64(3),
                     [i \in 1..200 |-> 117], "K1")

\* a store with every asset of the calls, to issue loans from
CodecStore ==
    [k \in Addresses |->
        IF k \in AssetAddresses
        THEN InitializedAsset(k.seeds[2], <<72>>, U64Max, <<117, 114, 105>>, "K1")
        ELSE Empty]

\* Loans as create_loan, repay_loan and liquidate_loan leave them
CodecLoans ==
    {[CreatedLoan(CodecStore, a, b, amount, rate, duration, now)
         EXCEPT !.is_active = flags[1], !.repaid = flags[2], !.liquidated = flags[3],
                !.risk_score_at_creation = rs] :
        a \in AssetAddresses, b \in Keys, amount \in {U64(1), U64Max},
        rate \in InterestRates, duration \in Durations \cup ExtremeDurations \cup {U64Max},
        now \in Timestamps, rs \in {0, 50, 100},
        flags \in {<<TRUE, FALSE, FALSE>>, <<FALSE, TRUE, FALSE>>, <<FALSE, FALSE, TRUE>>}}

\* the records whose data is also read cut short and damaged
SampleAsset == [InitializedAsset(<<82, 50>>, <<72>>, U64(3), <<117, 114, 105>>, "K2") EXCEPT !.risk_score = 81]

SampleLoan == CreatedLoan(CodecStore, FindProgramAddress(AssetSeeds(<<82, 50>>)).address, "K2", U64(1), U64(500), U64(2592000), U64(1700000000))

Prefix(data, n) == [i \in 1..n |-> data[i]]

\* the data with its first eight bytes zeroed
Untagged(data) == [i \in 1..Len(data) |-> IF i <= 8 THEN 0 ELSE data[i]]

\* the data with one byte replaced
Damaged(data, at, byte) == [i \in 1..Len(data) |-> IF i = at THEN byte ELSE data[i]]

CodecInput(kind, record, data, note) ==
    [phase |-> "input", kind |-> kind, record |-> record, data |-> data, note |-> note,
     out |-> [result |-> "none"]]

CodecInputs ==
    {CodecInput("Asset", r, AssetData(r), "stored") : r \in CodecAssets \cup {FullAsset}}
      \cup {CodecInput("Loan", r, LoanData(r), "stored") : r \in CodecLoans}
      \cup {CodecInput("Asset", SampleAsset, Prefix(AssetData(SampleAsset), n), "cut") :
               n \in 0..(AssetSpace - 1)}
      \cup {CodecInput("Loan", SampleLoan, Prefix(LoanData(SampleLoan), n), "cut") :
               n \in 0..(LoanSpace - 1)}
      \cup {CodecInput("Asset", SampleAsset, Untagged(AssetData(SampleAsset)), "untagged"),
            CodecInput("Loan", SampleLoan, Untagged(LoanData(SampleLoan)), "untagged")}
      \cup {CodecInput("Asset", SampleAsset, Damaged(AssetData(SampleAsset), at, 255), "damaged") :
               at \in {9, 10, 13, 14, 19, 32}}

InitCodec ==
    /\ store = EmptyStore
    /\ last = NoCall
    /\ overflow_checks = TRUE
    /\ calc \in CodecInputs

\* get_asset: the data fetched is decoded as an Asset
asset_from_bytes ==
    /\ calc.phase = "input"
    /\ calc' = [calc EXCEPT !.phase = "asset", !.out = AssetAccountFromBytes(calc.data)]
    /\ UNCHANGED <<store, last, overflow_checks>>

\* get_loan: the data fetched is decoded as a Loan
loan_from_bytes ==
    /\ calc.phase = "input"
    /\ calc' = [calc EXCEPT !.phase = "loan", !.out = LoanAccountFromBytes(calc.data)]
    /\ UNCHANGED <<store, last, overflow_checks>>

NextCodec ==
    \/ asset_from_bytes
    \/ loan_from_bytes

SpecCodec == InitCodec /\ [][NextCodec]_vars

(***************************************************************************)
(* The addresses the backend derives for its calls and reads                *)
(***************************************************************************)
\* declare_id! of the program
ID == "3ekhJkk57HSt8Rfj44fmgjhix9UXTJVBi6ZQEz7Hs5Po"

\* the program id the backend derives addresses under
PROGRAM_ID == "3ekhJkk57HSt8Rfj44fmgjhix9UXTJVBi6ZQEz7Hs5Po"

\* Pubkey::find_program_address(seeds, &self.program_id): the addresses of
\* the program are those derived under ID, any other program id gives
\* addresses of its own
ClientFindProgramAddress(seeds, program_id) ==
    IF program_id = ID THEN FindProgramAddress(seeds)
    ELSE [address |-> [seeds |-> seeds, bump |-> FindBump(seeds, 255), program |-> program_id],
          bump |-> FindBump(seeds, 255)]

\* the asset address derived from a misspelt seed
ClientAssetPda_WrongSeed(asset_id) ==
    ClientFindProgramAddress(<<"assets", asset_id>>, PROGRAM_ID).address

\* asset_pda of initialize_asset, update_risk_score, get_asset and create_loan
ClientAssetPda(asset_id) ==
    ClientFindProgramAddress(<<"asset", asset_id>>, PROGRAM_ID).address

\* loan_pda of create_loan
ClientLoanPda(asset_id, borrower) ==
    ClientFindProgramAddress(<<"loan", ClientAssetPda(asset_id), borrower>>, PROGRAM_ID).address

(***************************************************************************)
(* Instruction data: what the backend builds and what the program's entry   *)
(* point reads from it                                                      *)
(***************************************************************************)
DISCRIMINATOR_INITIALIZE_ASSET == <<214, 153, 49, 248, 95, 248, 208, 179>>

DISCRIMINATOR_UPDATE_RISK == <<80, 138, 35, 224, 23, 172, 20, 254>>

DISCRIMINATOR_CREATE_LOAN == <<166, 131, 118, 219, 138, 218, 206, 140>>

\* instruction_data of SolanaService::initialize_asset
ClientInitializeAssetData(asset_id, asset_type, valuation, metadata_uri) ==
    DISCRIMINATOR_INITIALIZE_ASSET
      \o U32Bytes(Len(asset_id)) \o asset_id
      \o U32Bytes(Len(asset_type)) \o asset_type
      \o LeBytes(valuation)
      \o U32Bytes(Len(metadata_uri)) \o metadata_uri

\* instruction_data of SolanaService::update_risk_score
ClientUpdateRiskData(risk_score) == DISCRIMINATOR_UPDATE_RISK \o <<risk_score>>

\* instruction data with the interest rate written before the amount
ClientCreateLoanData_RateFirst(loan_amount, interest_rate, duration) ==
    DISCRIMINATOR_CREATE_LOAN
      \o LeBytes(interest_rate) \o LeBytes(loan_amount) \o LeBytes(duration)

\* instruction_data of SolanaService::create_loan
ClientCreateLoanData(loan_amount, interest_rate, duration) ==
    DISCRIMINATOR_CREATE_LOAN
      \o LeBytes(loan_amount) \o LeBytes(interest_rate) \o LeBytes(duration)

\* sha256("global:<name>")[..8] of the instructions of #[program]
Sighash(name) ==
    CASE name = "initialize_asset" -> <<214, 153, 49, 248, 95, 248, 208, 179>>
      [] name = "update_risk_score" -> <<80, 138, 35, 224, 23, 172, 20, 254>>
      [] name = "create_loan" -> <<166, 131, 118, 219, 138, 218, 206, 140>>
      [] name = "repay_loan" -> <<224, 93, 144, 77, 61, 17, 137, 54>>
      [] name = "liquidate_loan" -> <<111, 249, 185, 54, 161, 147, 178, 24>>

Instructions ==
    {"initialize_asset", "update_risk_score", "create_loan", "repay_loan", "liquidate_loan"}

\* Borsh deserialisation of a String argument: an error where the data ends
\* early or is not UTF-8
BorshString(data, cursor) ==
    IF ~InRange(data, cursor, 4) THEN [result |-> "Err"]
    ELSE LET n == U32FromBytes(Slice(data, cursor, 4))
         IN  IF ~InRange(data, cursor + 4, n) THEN [result |-> "Err"]
             ELSE IF ~IsUtf8(Slice(data, cursor + 4, n)) THEN [result |-> "Err"]
             ELSE [result |-> "Ok", value |-> Slice(data, cursor + 4, n),
                   cursor |-> cursor + 4 + n]

DidNotDeserialize == [result |-> "InstructionDidNotDeserialize"]

\* (asset_id: String, asset_type: String, valuation: u64, metadata_uri: String)
InitializeAssetArgs(data) ==
    LET id == BorshString(data, 8)
    IN  IF id.result # "Ok" THEN DidNotDeserialize
        ELSE LET type == BorshString(data, id.cursor)
             IN  IF type.result # "Ok" THEN DidNotDeserialize
                 ELSE IF ~InRange(data, type.cursor, 8) THEN DidNotDeserialize
                 ELSE LET uri == BorshString(data, type.cursor + 8)
                      IN  IF uri.result # "Ok" THEN DidNotDeserialize
                          ELSE [result |-> "Ok", ix |-> "initialize_asset",
                                args |-> [asset_id |-> id.value,
                                          asset_type |-> type.value,
                                          valuation |-> FromLeBytes(Slice(data, type.cursor, 8)),
                                          metadata_uri |-> uri.value]]

\* (new_risk_score: u8)
UpdateRiskScoreArgs(data) ==
    IF ~InRange(data, 8, 1) THEN DidNotDeserialize
    ELSE [result |-> "Ok", ix |-> "update_risk_score",
          args |-> [new_risk_score |-> data[8 + 1]]]

\* (loan_amount: u64, interest_rate: u64, duration: i64)
CreateLoanArgs(data) ==
    IF ~InRange(data, 8, 24) THEN DidNotDeserialize
    ELSE [result |-> "Ok", ix |-> "create_loan",
          args |-> [loan_amount |-> FromLeBytes(Slice(data, 8, 8)),
                    interest_rate |-> FromLeBytes(Slice(data, 16, 8)),
                    duration |-> FromLeBytes(Slice(data, 24, 8))]]

\* the entry point of #[program]: the first 8 bytes choose the instruction,
\* the rest is its arguments in declared order
Dispatch(data) ==
    IF ~InRange(data, 0, 8) THEN [result |-> "InstructionMissing"]
    ELSE IF \A name \in Instructions : Slice(data, 0, 8) # Sighash(name)
         THEN [result |-> "InstructionFallbackNotFound"]
    ELSE LET name == CHOOSE n \in Instructions : Slice(data, 0, 8) = Sighash(n)
         IN  CASE name = "initialize_asset" -> InitializeAssetArgs(data)
               [] name = "update_risk_score" -> UpdateRiskScoreArgs(data)
               [] name = "create_loan" -> CreateLoanArgs(data)
               [] OTHER -> [result |-> "Ok", ix |-> name, args |-> <<>>]

\* the arguments of the backend's calls
PayloadUris == MetadataUris \cup {[i \in 1..200 |-> 117]}

PayloadValuations == {U64(3), U64(1000000), U64Max}

PayloadAmounts == {U64(1), U64Max}

PayloadRates == {U64(500), U64Max}

PayloadDurations == Durations \cup ExtremeDurations \cup {U64Max}

PayloadRiskScores == {0, 50, 100, 101, 255}

PayloadInput(ix, args) ==
    [phase |-> "input", ix |-> ix, args |-> args, data |-> <<>>,
     out |-> [result |-> "none"]]

PayloadInputs ==
    {PayloadInput("initialize_asset",
                  [asset_id |-> id, asset_type |-> type, valuation |-> v,
                   metadata_uri |-> uri]) :
        id \in CodecAssetIds, type \in AssetTypes \cup {<<>>}, v \in PayloadValuations,
        uri \in PayloadUris}
      \cup {PayloadInput("update_risk_score", [new_risk_score |-> rs]) :
               rs \in PayloadRiskScores}
      \cup {PayloadInput("create_loan",
                         [loan_amount |-> amount, interest_rate |-> rate,
                          duration |-> duration]) :
               amount \in PayloadAmounts, rate \in PayloadRates,
               duration \in PayloadDurations}

InitPayload ==
    /\ store = EmptyStore
    /\ last = NoCall
    /\ overflow_checks = TRUE
    /\ calc \in PayloadInputs

client_initialize_asset ==
    /\ calc.phase = "input"
    /\ calc.ix = "initialize_asset"
    /\ calc' = [calc EXCEPT !.phase = "sent",
                            !.data = ClientInitializeAssetData(calc.args.asset_id,
                                         calc.args.asset_type, calc.args.valuation,
                                         calc.args.metadata_uri)]
    /\ UNCHANGED <<store, last, overflow_checks>>

client_update_risk_score ==
    /\ calc.phase = "input"
    /\ calc.ix = "update_risk_score"
    /\ calc' = [calc EXCEPT !.phase = "sent",
                            !.data = ClientUpdateRiskData(calc.args.new_risk_score)]
    /\ UNCHANGED <<store, last, overflow_checks>>

client_create_loan ==
    /\ calc.phase = "input"
    /\ calc.ix = "create_loan"
    /\ calc' = [calc EXCEPT !.phase = "sent",
                            !.data = ClientCreateLoanData(calc.args.loan_amount,
                                         calc.args.interest_rate, calc.args.duration)]
    /\ UNCHANGED <<store, last, overflow_checks>>

\* the program receives the data
dispatch ==
    /\ calc.phase = "sent"
    /\ calc' = [calc EXCEPT !.phase = "parsed", !.out = Dispatch(calc.data)]
    /\ UNCHANGED <<store, last, overflow_checks>>

NextPayload ==
    \/ client_initialize_asset
    \/ client_update_risk_score
    \/ client_create_loan
    \/ dispatch

SpecPayload == InitPayload /\ [][NextPayload]_vars

(***************************************************************************)
(* The backend's reads: the account at an address is fetched, decoded and   *)
(* answered to the HTTP caller                                              *)
(***************************************************************************)
\* RpcClient::get_account: an error when no account is at the address
Absent == [present |-> FALSE]

\* RpcClient::get_account: the account found, with its data
Fetched(data) == [present |-> TRUE, data |-> data]

\* anyhow::Error: the one error type of the client, made from a message or
\* from the error of the decoder
Anyhow(message) == [type |-> "anyhow::Error", message |-> message]

\* SolanaService::get_asset, from the fetch on; bump is not reported
GetAsset(account) ==
    IF ~account.present
    THEN [result |-> "Err", error |-> Anyhow("Asset not found: AccountNotFound")]
    ELSE LET decoded == AssetAccountFromBytes(account.data)
         IN  IF decoded.result = "Ok"
             THEN [result |-> "Ok",
                   value |-> [asset_id |-> decoded.account.asset_id,
                              asset_type |-> decoded.account.asset_type,
                              valuation |-> decoded.account.valuation,
                              metadata_uri |-> decoded.account.metadata_uri,
                              owner |-> decoded.account.owner,
                              is_active |-> decoded.account.is_active,
                              risk_score |-> decoded.account.risk_score,
                              last_update |-> decoded.account.last_update]]
             ELSE IF decoded.result = "Err"
             THEN [result |-> "Err", error |-> Anyhow("invalid utf-8 sequence")]
             ELSE [result |-> "Panic"]

\* SolanaService::get_loan, from the fetch on; bump is not reported
GetLoan(account) ==
    IF ~account.present
    THEN [result |-> "Err", error |-> Anyhow("Loan not found: AccountNotFound")]
    ELSE LET decoded == LoanAccountFromBytes(account.data)
         IN  IF decoded.result = "Ok"
             THEN [result |-> "Ok",
                   value |-> [borrower |-> decoded.account.borrower,
                              asset |-> decoded.account.asset,
                              principal |-> decoded.account.principal,
                              interest_rate |-> decoded.account.interest_rate,
                              start_time |-> decoded.account.start_time,
                              end_time |-> decoded.account.end_time,
                              is_active |-> decoded.account.is_active,
                              liquidated |-> decoded.account.liquidated,
                              repaid |-> decoded.account.repaid,
                              risk_score_at_creation |->
                                  decoded.account.risk_score_at_creation]]
             ELSE [result |-> "Panic"]

\* the answer of a route to what the client returned: every error of the
\* client is answered as not found; a panic ends the request unanswered
RouteAnswer(out, prefix) ==
    IF out.result = "Ok" THEN [status |-> "200 OK", body |-> out.value]
    ELSE IF out.result = "Err"
    THEN [status |-> "404 Not Found", body |-> <<prefix, out.error.message>>]
    ELSE [status |-> "none"]

\* routes::get_asset
RouteGetAsset(account) == RouteAnswer(GetAsset(account), "Asset not found: ")

\* routes::get_loan
RouteGetLoan(account) == RouteAnswer(GetLoan(account), "Loan not found: ")

\* what a read may find at its address: nothing, or one of the buffers above
ReadAccounts == {Absent} \cup {Fetched(c.data) : c \in CodecInputs}

InitRead ==
    /\ store = EmptyStore
    /\ last = NoCall
    /\ overflow_checks = TRUE
    /\ calc \in {[phase |-> "input", account |-> a, answer |-> [status |-> "none"]] :
                    a \in ReadAccounts}

\* GET /assets/:asset_id
get_asset ==
    /\ calc.phase = "input"
    /\ calc' = [calc EXCEPT !.phase = "asset", !.answer = RouteGetAsset(calc.account)]
    /\ UNCHANGED <<store, last, overflow_checks>>

\* GET /loans/:loan_pda
get_loan ==
    /\ calc.phase = "input"
    /\ calc' = [calc EXCEPT !.phase = "loan", !.answer = RouteGetLoan(calc.account)]
    /\ UNCHANGED <<store, last, overflow_checks>>

NextRead ==
    \/ get_asset
    \/ get_loan

SpecRead == InitRead /\ [][NextRead]_vars

(***************************************************************************)
(* Calls as values: the instruction, the accounts it is passed and its      *)
(* arguments, processed one after another in an order the callers do not    *)
(* choose                                                                   *)
(***************************************************************************)
InitializeAssetTxs ==
    {[ix |-> "initialize_asset", asset |-> asset_key, asset_id |-> asset_id,
      asset_type |-> asset_type, valuation |-> profile[1],
      metadata_uri |-> metadata_uri, owner |-> profile[2]] :
        asset_key \in AssetAddresses, asset_id \in AssetIds, asset_type \in AssetTypes,
        profile \in InitProfiles, metadata_uri \in MetadataUris}

UpdateRiskScoreTxs ==
    {[ix |-> "update_risk_score", asset |-> asset_key, new_risk_score |-> new_risk_score] :
        asset_key \in AssetAddresses, new_risk_score \in RiskInputs}

\* now is the clock reading the handler gets
CreateLoanTxs ==
    {[ix |-> "create_loan",
      loan |-> FindProgramAddress(LoanSeeds(asset_key, seed_key)).address,
      asset |-> asset_key, borrower |-> borrower, loan_amount |-> loan_amount,
      interest_rate |-> interest_rate, duration |-> duration, now |-> now] :
        asset_key \in AssetAddresses, borrower \in Keys, seed_key \in Keys,
        loan_amount \in LoanAmounts, interest_rate \in InterestRates,
        duration \in Durations, now \in Timestamps}

RepayLoanTxs == {[ix |-> "repay_loan", loan |-> loan_key] : loan_key \in LoanAddresses}

LiquidateLoanTxs ==
    {[ix |-> "liquidate_loan", loan |-> loan_key, asset |-> asset_key] :
        loan_key \in LoanAddresses, asset_key \in AssetAddresses}

Txs ==
    InitializeAssetTxs \cup UpdateRiskScoreTxs \cup CreateLoanTxs
        \cup RepayLoanTxs \cup LiquidateLoanTxs

\* the entry point: the handler of the instruction, on the accounts passed
ProcessResult(st, checks, tx) ==
    CASE tx.ix = "initialize_asset" ->
             InitializeAssetResult(st, tx.asset, tx.asset_id, tx.asset_type,
                                   tx.valuation, tx.metadata_uri, tx.owner)
      [] tx.ix = "update_risk_score" ->
             UpdateRiskScoreResult(st, tx.asset, tx.new_risk_score)
      [] tx.ix = "create_loan" ->
             CreateLoanResult(st, checks, tx.loan, tx.asset, tx.borrower,
                              tx.loan_amount, tx.duration, tx.now)
      [] tx.ix = "repay_loan" -> RepayLoanResult(st, tx.loan)
      [] tx.ix = "liquidate_loan" -> LiquidateLoanResult(st, tx.loan, tx.asset)

ProcessStore(st, checks, tx) ==
    CASE tx.ix = "initialize_asset" ->
             InitializeAssetStore(st, tx.asset, tx.asset_id, tx.asset_type,
                                  tx.valuation, tx.metadata_uri, tx.owner)
      [] tx.ix = "update_risk_score" ->
             UpdateRiskScoreStore(st, tx.asset, tx.new_risk_score)
      [] tx.ix = "create_loan" ->
             CreateLoanStore(st, checks, tx.loan, tx.asset, tx.borrower,
                             tx.loan_amount, tx.interest_rate, tx.duration, tx.now)
      [] tx.ix = "repay_loan" -> RepayLoanStore(st, tx.loan)
      [] tx.ix = "liquidate_loan" -> LiquidateLoanStore(st, tx.loan, tx.asset)

\* the account a call's handler writes: the Asset of initialize_asset and
\* update_risk_score, the Loan of the other three
Mutated(tx) ==
    IF tx.ix \in {"initialize_asset", "update_risk_score"} THEN tx.asset ELSE tx.loan

\* the program's accounts in the call's Accounts struct
TxAccounts(tx) ==
    IF tx.ix \in {"initialize_asset", "update_risk_score"} THEN {tx.asset}
    ELSE IF tx.ix = "repay_loan" THEN {tx.loan}
    ELSE {tx.loan, tx.asset}

\* the runtime processes one of the calls; the model's bound keeps a call
\* that allocates for a store with room
Run(txs) ==
    \E tx \in txs :
        /\ ProcessResult(store, overflow_checks, tx) = "Ok"
               /\ tx.ix \in {"initialize_asset", "create_loan"} => HasRoom(store)
        /\ store' = ProcessStore(store, overflow_checks, tx)
        /\ UNCHANGED <<last, calc, overflow_checks>>

run_initialize_asset == Run(InitializeAssetTxs)

run_update_risk_score == Run(UpdateRiskScoreTxs)

run_create_loan == Run(CreateLoanTxs)

run_repay_loan == Run(RepayLoanTxs)

run_liquidate_loan == Run(LiquidateLoanTxs)

NextTxs ==
    \/ run_initialize_asset
    \/ run_update_risk_score
    \/ run_create_loan
    \/ run_repay_loan
    \/ run_liquidate_loan

\* the stores of the program, whatever the callers were told
SpecTxs == Init /\ [][NextTxs]_vars

(***************************************************************************)
(* Properties                                                              *)
(***************************************************************************)
IsAsset(k) == store[k].kind = "Asset"

IsLoan(k) == store[k].kind = "Loan"

IsTerminal(k) == IsLoan(k) /\ (store[k].repaid \/ store[k].liquidated)

\* C1: every Loan account that is active is neither repaid nor liquidated,
\* and no Loan account is both repaid and liquidated.
C1_ActiveExcludesTerminal ==
    \A k \in Addresses :
        IsLoan(k) =>
            /\ store[k].is_active => ~store[k].repaid /\ ~store[k].liquidated
            /\ ~(store[k].repaid /\ store[k].liquidated)

\* a repaid loan and a liquidated loan side by side
C1_Witness ==
    /\ \E k \in Addresses : IsLoan(k) /\ store[k].repaid /\ ~store[k].is_active
    /\ \E k \in Addresses : IsLoan(k) /\ store[k].liquidated /\ ~store[k].is_active

\* C2: in every step, a Loan that is inactive stays an inactive Loan, one
\* that is repaid stays repaid and one that is liquidated stays liquidated.
C2_TerminalIsPermanent ==
    [][\A k \in Addresses :
          IsLoan(k) =>
              /\ store'[k].kind = "Loan"
              /\ ~store[k].is_active => ~store'[k].is_active
              /\ store[k].repaid => store'[k].repaid
              /\ store[k].liquidated => store'[k].liquidated]_vars

\* create_loan was called again for the pair of the only loan, which is
\* repaid, and was turned away
C2_Witness ==
    /\ last.op = "create_loan"
    /\ last.result = "AlreadyInUse"
    /\ Cardinality({k \in Addresses : IsLoan(k)}) = 1
    /\ \E k \in Addresses : IsLoan(k) /\ store[k].repaid /\ ~store[k].is_active

\* C3: on a repaid or liquidated Loan, repay_loan and liquidate_loan (with
\* any Asset, whatever its risk score) fail with LoanInactive and leave the
\* store as it is.
C3_TerminalCallsFail ==
    \A k \in LoanAddresses :
        IsTerminal(k) =>
            /\ RepayLoanResult(store, k) = "LoanInactive"
            /\ RepayLoanStore(store, k) = store
            /\ \A a \in AssetAddresses :
                   IsAsset(a) =>
                       /\ LiquidateLoanResult(store, k, a) = "LoanInactive"
                       /\ LiquidateLoanStore(store, k, a) = store

\* liquidate_loan was turned away as inactive although every asset is
\* above the liquidation threshold
C3_Witness ==
    /\ last.op = "liquidate_loan"
    /\ last.result = "LoanInactive"
    /\ \A a \in AssetAddresses : IsAsset(a) => store[a].risk_score > 80
    /\ \E k \in LoanAddresses : IsTerminal(k) /\ store[k].repaid

\* C4: for a Loan and an Asset, liquidate_loan succeeds exactly when the
\* loan is active and the asset's risk score is above 80; an active loan
\* with a score of at most 80 is NotEligibleForLiquidation; a success
\* leaves the loan inactive and liquidated.
C4_LiquidationGate ==
    \A k \in LoanAddresses, a \in AssetAddresses :
        (IsLoan(k) /\ IsAsset(a)) =>
            /\ LiquidateLoanResult(store, k, a) = "Ok"
                   <=> (store[k].is_active /\ store[a].risk_score > 80)
            /\ (store[k].is_active /\ store[a].risk_score <= 80)
                   => LiquidateLoanResult(store, k, a) = "NotEligibleForLiquidation"
            /\ LiquidateLoanResult(store, k, a) = "Ok"
                   => /\ ~LiquidateLoanStore(store, k, a)[k].is_active
                      /\ LiquidateLoanStore(store, k, a)[k].liquidated

\* a liquidation went through: the loan is liquidated and its asset is
\* above the threshold
C4_Witness ==
    /\ last.op = "liquidate_loan"
    /\ last.result = "Ok"
    /\ \E k \in LoanAddresses :
           /\ IsLoan(k) /\ store[k].liquidated /\ ~store[k].is_active
           /\ store[store[k].asset].risk_score > 80

LoanKey(asset_key, borrower) == FindProgramAddress(LoanSeeds(asset_key, borrower)).address

AssetKey(asset_id) == FindProgramAddress(AssetSeeds(asset_id)).address

\* n + 1 for an unsigned value below the maximum
Succ(n) == WrappingAdd(n, FromNat(1, Len(n)))

\* C5: for an Asset and a borrower whose loan address is free, create_loan
\* succeeds exactly when loan_amount <= max_loan of the asset's current
\* valuation and risk score, and fails with LoanTooHigh above it; in
\* particular max_loan succeeds and max_loan + 1 fails.
C5_CreateLoanIffWithinCeiling ==
    \A a \in AssetAddresses, b \in Keys :
        (IsAsset(a) /\ store[LoanKey(a, b)].kind = "Empty") =>
            LET max_loan == MaxLoan(store[a].valuation, store[a].risk_score)
            IN  \A loan_amount \in LoanAmounts \cup {max_loan, Succ(max_loan)},
                   duration \in Durations \cup ExtremeDurations, now \in Timestamps :
                    LET result == CreateLoanResult(store, overflow_checks, LoanKey(a, b),
                                                   a, b, loan_amount, duration, now)
                    IN  /\ result = "Ok" <=> Leq(loan_amount, max_loan)
                        /\ ~Leq(loan_amount, max_loan) => result = "LoanTooHigh"

RefLimbs == U64Limbs + 2

\* the tier table of the loan-to-value ceiling
TierPercent(risk_score) ==
    CASE risk_score \in 0..20 -> 70
      [] risk_score \in 21..40 -> 60
      [] risk_score \in 41..60 -> 50
      [] risk_score \in 61..80 -> 35
      [] risk_score \in 81..100 -> 20

\* q = floor(v * percent / 100), stated in 96 bits, where neither side wraps:
\* 100 q <= v * percent < 100 q + 100
IsFloorOfPercent(q, v, percent) ==
    LET product == WrappingMul(Widen(v, RefLimbs), percent)
        q100    == WrappingMul(Widen(q, RefLimbs), 100)
    IN  /\ Leq(q100, product)
        /\ ~Leq(WrappingAdd(q100, FromNat(100, RefLimbs)), product)

\* C6: for every valuation and every risk score 0..100 the ceiling computed
\* is floor(valuation * ltv / 100) with ltv taken from the tier table, a
\* 64-bit value: nothing is lost to overflow or truncation.
C6_MaxLoanIsFloor ==
    calc.phase = "done" =>
        /\ Len(calc.max_a) = U64Limbs
        /\ IsFloorOfPercent(calc.max_a, calc.valuation, TierPercent(calc.risk_a))
        /\ IsFloorOfPercent(calc.max_b, calc.valuation, TierPercent(calc.risk_b))

\* the ceiling of the largest valuation in the 70% tier: the product needs
\* more than 64 bits
C6_Witness ==
    /\ calc.phase = "done"
    /\ calc.valuation = U64Max
    /\ calc.risk_a = 20
    /\ calc.max_a = <<13106, 13107, 13107, 45875>>

\* C7: for one valuation and risk scores a < b in 0..100, the ceiling at a
\* is at least the ceiling at b.
C7_LtvMonotone ==
    (calc.phase = "done" /\ calc.risk_a < calc.risk_b) => Leq(calc.max_b, calc.max_a)

\* the two sides of a tier boundary, with different ceilings
C7_Witness ==
    /\ calc.phase = "done"
    /\ calc.risk_a = 60
    /\ calc.risk_b = 61
    /\ calc.valuation = U64(1000000)
    /\ calc.max_a = U64(500000)
    /\ calc.max_b = U64(350000)

\* C8: every Asset has a risk score in 0..100 and every Loan a risk score
\* at creation in 0..100.
C8_RiskScoresInRange ==
    \A k \in Addresses :
        /\ IsAsset(k) => store[k].risk_score \in 0..100
        /\ IsLoan(k) => store[k].risk_score_at_creation \in 0..100

\* an update past the range was turned away, after an update that went
\* through and a loan created at the updated score
C8_Witness ==
    /\ last.op = "update_risk_score"
    /\ last.result = "InvalidRiskScore"
    /\ \E k \in Addresses : IsAsset(k) /\ store[k].risk_score = 81
    /\ \E k \in Addresses : IsLoan(k) /\ store[k].risk_score_at_creation = 80

\* C9: once a Loan exists for an (asset, borrower) pair, every create_loan
\* for that pair fails with AlreadyInUse and leaves the store as it is,
\* whether the loan is active, repaid or liquidated.
C9_OneLoanPerPair ==
    \A a \in AssetAddresses, b \in Keys :
        IsLoan(LoanKey(a, b)) =>
            \A loan_amount \in LoanAmounts, interest_rate \in InterestRates,
               duration \in Durations \cup ExtremeDurations, now \in Timestamps,
               checks \in BOOLEAN :
                /\ CreateLoanResult(store, checks, LoanKey(a, b), a, b, loan_amount,
                                    duration, now) = "AlreadyInUse"
                /\ CreateLoanStore(store, checks, LoanKey(a, b), a, b, loan_amount,
                                   interest_rate, duration, now) = store

\* create_loan was called again for the pair of the only loan, which is
\* liquidated, and was turned away
C9_Witness ==
    /\ last.op = "create_loan"
    /\ last.result = "AlreadyInUse"
    /\ Cardinality({k \in Addresses : IsLoan(k)}) = 1
    /\ \E k \in Addresses : IsLoan(k) /\ store[k].liquidated

\* C10: once an Asset exists for an asset_id, every initialize_asset with
\* that asset_id fails with AlreadyInUse at the derived address (with
\* ConstraintSeeds at any other) and leaves the store as it is.
C10_OneAssetPerId ==
    \A asset_id \in AssetIds :
        IsAsset(AssetKey(asset_id)) =>
            \A asset_key \in AssetAddresses, asset_type \in AssetTypes,
               profile \in InitProfiles, metadata_uri \in MetadataUris :
                /\ InitializeAssetResult(store, asset_key, asset_id, asset_type,
                                         profile[1], metadata_uri, profile[2])
                       = IF asset_key = AssetKey(asset_id) THEN "AlreadyInUse"
                                                           ELSE "ConstraintSeeds"
                /\ InitializeAssetStore(store, asset_key, asset_id, asset_type,
                                        profile[1], metadata_uri, profile[2]) = store

\* initialize_asset was called again for the only asset, whose risk score
\* has moved away from the default, and was turned away
C10_Witness ==
    /\ last.op = "initialize_asset"
    /\ last.result = "AlreadyInUse"
    /\ Cardinality({k \in Addresses : IsAsset(k)}) = 1
    /\ \E k \in Addresses : IsAsset(k) /\ store[k].risk_score = 81

\* C11: initialize_asset at the derived address of an unused asset_id
\* succeeds, and a successful initialize_asset leaves at the address an
\* Asset that is active, has risk score 50 and carries the asset_id,
\* asset_type, valuation, metadata_uri and owner of the call, whatever else
\* the store holds; every other address keeps its account.
C11_InitializeAssetCreates ==
    \A asset_key \in AssetAddresses, asset_id \in AssetIds, asset_type \in AssetTypes,
       profile \in InitProfiles, metadata_uri \in MetadataUris :
        LET result == InitializeAssetResult(store, asset_key, asset_id, asset_type,
                                            profile[1], metadata_uri, profile[2])
            new    == InitializeAssetStore(store, asset_key, asset_id, asset_type,
                                           profile[1], metadata_uri, profile[2])
        IN  /\ (asset_key = AssetKey(asset_id) /\ store[asset_key].kind = "Empty")
                   => result = "Ok"
            /\ result = "Ok" =>
                   /\ new[asset_key].kind = "Asset"
                   /\ new[asset_key].is_active = TRUE
                   /\ new[asset_key].risk_score = 50
                   /\ new[asset_key].asset_id = asset_id
                   /\ new[asset_key].asset_type = asset_type
                   /\ new[asset_key].valuation = profile[1]
                   /\ new[asset_key].metadata_uri = metadata_uri
                   /\ new[asset_key].owner = profile[2]
                   /\ \A k \in Addresses \ {asset_key} : new[k] = store[k]

\* a second asset was initialised next to an asset whose risk score has
\* moved to 81 and a loan: it has the default score and the call's data
C11_Witness ==
    /\ last.op = "initialize_asset"
    /\ last.result = "Ok"
    /\ \E k \in Addresses : IsLoan(k)
    /\ \E k \in Addresses : IsAsset(k) /\ store[k].risk_score = 81
    /\ \E k \in Addresses :
           /\ IsAsset(k) /\ store[k].is_active /\ store[k].risk_score = 50
           /\ store[k].valuation = U64(2) /\ store[k].owner = "K2"

AssetFieldsButRisk ==
    {"kind", "asset_id", "asset_type", "valuation", "metadata_uri", "owner",
     "is_active", "bump"}

\* C12: a successful update_risk_score stores the new score in the Asset
\* passed and changes nothing else: the Asset's other fields and every other
\* account are as before.
C12_UpdateRiskScoreFrame ==
    \A asset_key \in AssetAddresses, new_risk_score \in RiskInputs :
        UpdateRiskScoreResult(store, asset_key, new_risk_score) = "Ok" =>
            LET new == UpdateRiskScoreStore(store, asset_key, new_risk_score)
            IN  /\ new[asset_key].risk_score = new_risk_score
                /\ \A f \in AssetFieldsButRisk : new[asset_key][f] = store[asset_key][f]
                /\ \A k \in Addresses \ {asset_key} : new[k] = store[k]

\* an update to 81 went through next to a second asset still at the default
\* and a loan created at 50
C12_Witness ==
    /\ last.op = "update_risk_score"
    /\ last.result = "Ok"
    /\ \E k \in Addresses : IsAsset(k) /\ store[k].risk_score = 81
    /\ \E k \in Addresses : IsAsset(k) /\ store[k].risk_score = 50
    /\ \E k \in Addresses : IsLoan(k) /\ store[k].risk_score_at_creation = 50

\* C13: in every step, a Loan that appears carries the risk score its asset
\* had before the step, and a Loan that exists keeps its
\* risk_score_at_creation.
C13_SnapshotIsImmutable ==
    [][\A k \in LoanAddresses :
          /\ (store[k].kind = "Empty" /\ store'[k].kind = "Loan") =>
                 store'[k].risk_score_at_creation = store[store'[k].asset].risk_score
          /\ IsLoan(k) =>
                 store'[k].risk_score_at_creation = store[k].risk_score_at_creation]_vars

\* a loan created at 80 was liquidated after its asset moved to 81: the
\* snapshot is still 80
C13_Witness ==
    /\ last.op = "liquidate_loan"
    /\ last.result = "Ok"
    /\ \E k \in LoanAddresses :
           /\ IsLoan(k) /\ store[k].liquidated
           /\ store[k].risk_score_at_creation = 80
           /\ store[store[k].asset].risk_score = 81

C15_AssetRoundTrip ==
    (calc.phase = "asset" /\ calc.kind = "Asset" /\ calc.note = "stored") =>
        /\ calc.out.result = "Ok"
        /\ calc.out.account.asset_id = calc.record.asset_id
        /\ calc.out.account.asset_type = calc.record.asset_type
        /\ calc.out.account.valuation = calc.record.valuation
        /\ calc.out.account.metadata_uri = calc.record.metadata_uri
        /\ calc.out.account.owner = KeyBytes(calc.record.owner)
        /\ calc.out.account.is_active = calc.record.is_active
        /\ calc.out.account.risk_score = calc.record.risk_score
        /\ calc.out.account.bump = calc.record.bump

\* C16: the data the program stores for a Loan decodes on the backend to an
\* account equal to the Loan in all eleven fields.
C16_LoanRoundTrip ==
    (calc.phase = "loan" /\ calc.kind = "Loan" /\ calc.note = "stored") =>
        /\ calc.out.result = "Ok"
        /\ calc.out.account.borrower = KeyBytes(calc.record.borrower)
        /\ calc.out.account.asset = AddressBytes(calc.record.asset)
        /\ calc.out.account.principal = calc.record.principal
        /\ calc.out.account.interest_rate = calc.record.interest_rate
        /\ calc.out.account.start_time = calc.record.start_time
        /\ calc.out.account.end_time = calc.record.end_time
        /\ calc.out.account.is_active = calc.record.is_active
        /\ calc.out.account.repaid = calc.record.repaid
        /\ calc.out.account.liquidated = calc.record.liquidated
        /\ calc.out.account.risk_score_at_creation = calc.record.risk_score_at_creation
        /\ calc.out.account.bump = calc.record.bump

\* a repaid loan of the largest principal, with an end time before its
\* start and a bump found at the third nonce, was read back
C16_Witness ==
    /\ calc.phase = "loan"
    /\ calc.kind = "Loan"
    /\ calc.note = "stored"
    /\ calc.out.result = "Ok"
    /\ calc.out.account.repaid /\ ~calc.out.account.is_active /\ ~calc.out.account.liquidated
    /\ calc.out.account.principal = U64Max
    /\ IsNegative(calc.out.account.end_time)
    /\ calc.out.account.risk_score_at_creation = 100
    /\ calc.out.account.bump = 253

\* C17: decoding a buffer that was cut short, as an Asset or as a Loan,
\* never panics.
C17_DecodeNeverAborts ==
    (calc.phase \in {"asset", "loan"} /\ calc.note = "cut") => calc.out.result # "Panic"

\* C18: decoding as an Asset data that does not begin with the Asset
\* discriminator, or as a Loan data that does not begin with the Loan
\* discriminator, does not return an account.
C18_ForeignTagRejected ==
    /\ (calc.phase = "asset" /\ ~(Len(calc.data) >= 8 /\ Prefix(calc.data, 8) = AssetDiscriminator))
           => calc.out.result # "Ok"
    /\ (calc.phase = "loan" /\ ~(Len(calc.data) >= 8 /\ Prefix(calc.data, 8) = LoanDiscriminator))
           => calc.out.result # "Ok"

\* C19: for every asset_id the address the backend derives is the one
\* initialize_asset validates, and once the Asset exists update_risk_score
\* accepts it; for every asset_id and borrower the loan address the backend
\* derives is the one create_loan validates; every Asset and Loan of the
\* store sits at the address the backend derives from its asset_id and
\* borrower.
C19_ClientAddressesAgree ==
    /\ \A asset_id \in AssetIds :
           /\ ClientAssetPda(asset_id) = FindProgramAddress(AssetSeeds(asset_id)).address
           /\ InitializeAssetAccounts(store, ClientAssetPda(asset_id), asset_id)
                  # "ConstraintSeeds"
           /\ IsAsset(ClientAssetPda(asset_id))
                  => UpdateRiskScoreAccounts(store, ClientAssetPda(asset_id)) = "Ok"
           /\ \A borrower \in Keys :
                  /\ ClientLoanPda(asset_id, borrower)
                         = FindProgramAddress(LoanSeeds(AssetKey(asset_id), borrower)).address
                  /\ IsAsset(ClientAssetPda(asset_id))
                         => CreateLoanAccounts(store, ClientLoanPda(asset_id, borrower),
                                               ClientAssetPda(asset_id), borrower)
                                \in {"Ok", "AlreadyInUse"}
    /\ \A k \in AssetAddresses : IsAsset(k) => ClientAssetPda(store[k].asset_id) = k
    /\ \A k \in LoanAddresses :
           IsLoan(k) =>
               ClientLoanPda(store[store[k].asset].asset_id, store[k].borrower) = k

\* a loan was created at an address found at the third nonce, on an asset
\* whose address was found at the second
C19_Witness ==
    /\ last.op = "create_loan"
    /\ last.result = "Ok"
    /\ \E k \in LoanAddresses :
           /\ IsLoan(k) /\ store[k].bump = 253 /\ store[k].is_active
           /\ store[store[k].asset].bump = 254
           /\ k = ClientLoanPda(<<82, 50>>, "K2")

\* C20: the data the backend builds for initialize_asset,
\* update_risk_score and create_loan is read by the program's entry point
\* as the same instruction with the same arguments.
C20_PayloadAgreement ==
    calc.phase = "parsed" =>
        /\ calc.out.result = "Ok"
        /\ calc.out.ix = calc.ix
        /\ calc.out.args = calc.args

\* an initialize_asset whose asset_id is a two-byte character, with the
\* largest valuation and a 200-byte uri, arrives as sent
C20_Witness ==
    /\ calc.phase = "parsed"
    /\ calc.out.result = "Ok"
    /\ calc.out.ix = "initialize_asset"
    /\ calc.out.args.asset_id = <<195, 169>>
    /\ calc.out.args.asset_type = <<72>>
    /\ calc.out.args.valuation = U64Max
    /\ Len(calc.out.args.metadata_uri) = 200

\* the data of the account read does not decode as the record asked for
Undecodable ==
    /\ calc.account.present
    /\ \/ calc.phase = "asset" /\ AssetAccountFromBytes(calc.account.data).result # "Ok"
       \/ calc.phase = "loan" /\ LoanAccountFromBytes(calc.account.data).result # "Ok"

\* C21: a read (get_asset, get_loan) reports a record that does not decode
\* as a failure of another kind than a record that is missing, so that the
\* caller can tell the two apart: the status answered for data that does
\* not decode is never the status answered when no account is there.
C21_MissingAndUndecodableDiffer ==
    Undecodable =>
        /\ calc.phase = "asset" => calc.answer.status # RouteGetAsset(Absent).status
        /\ calc.phase = "loan" => calc.answer.status # RouteGetLoan(Absent).status

\* two calls give each other the same outcome and the same final store in
\* either order from st
Commute(st, checks, a, b) ==
    LET sa == ProcessStore(st, checks, a)
        sb == ProcessStore(st, checks, b)
    IN  /\ ProcessResult(sb, checks, a) = ProcessResult(st, checks, a)
        /\ ProcessResult(sa, checks, b) = ProcessResult(st, checks, b)
        /\ ProcessStore(sa, checks, b) = ProcessStore(sb, checks, a)

\* C22: calls whose mutated records sit at different addresses are
\* independent: from every reachable store, applying two such calls in
\* either order gives each call the same outcome and produces the same
\* final store (update_risk_score on an asset and create_loan or
\* liquidate_loan against that asset included).
C22_DifferentAddressesCommute ==
    \A a \in Txs : \A b \in Txs :
        Mutated(a) # Mutated(b) => Commute(store, overflow_checks, a, b)

\* neither call is passed the account the other one writes
Unrelated(a, b) == Mutated(a) \notin TxAccounts(b) /\ Mutated(b) \notin TxAccounts(a)

\* C22 (amended): calls are independent when neither is passed the account
\* the other one writes: from every reachable store, two such calls (two
\* create_loan by different borrowers on one asset, update_risk_score on one
\* asset and create_loan or liquidate_loan with the other asset, repay_loan
\* and liquidate_loan of different loans) get the same outcome and leave the
\* same store in either order, each with the clock reading it is given.
C22_UnrelatedCallsCommute ==
    \A b \in Txs :
        LET sb == ProcessStore(store, overflow_checks, b)
        IN  \A a \in Txs :
                Unrelated(a, b) =>
                    /\ ProcessResult(sb, overflow_checks, a)
                           = ProcessResult(store, overflow_checks, a)
                    /\ ProcessStore(sb, overflow_checks, a)
                           = ProcessStore(ProcessStore(store, overflow_checks, a),
                                          overflow_checks, b)

\* both borrowers hold a loan on one asset, and the store is the one that
\* their two create_loan calls leave in either order
C22_Witness ==
    \E a \in CreateLoanTxs, b \in CreateLoanTxs :
        /\ a.asset = b.asset /\ a.borrower # b.borrower
        /\ Unrelated(a, b)
        /\ store[a.loan].kind = "Loan" /\ store[b.loan].kind = "Loan"
        /\ LET before == [store EXCEPT ![a.loan] = Empty, ![b.loan] = Empty]
               ab == ProcessStore(ProcessStore(before, overflow_checks, a), overflow_checks, b)
               ba == ProcessStore(ProcessStore(before, overflow_checks, b), overflow_checks, a)
           IN  ab = store /\ ba = store

\* C23: a create_loan whose loan_amount exceeds max_loan fails with
\* LoanTooHigh in both orders: issued first on an unused pair, where it
\* leaves the address unoccupied and a following create_loan of max_loan for
\* the pair succeeds, and issued for the same pair after a create_loan of
\* max_loan has succeeded.
C23_LoanTooHighInBothOrders ==
    \A a \in AssetAddresses, b \in Keys :
        IsAsset(a) =>
            LET max_loan == MaxLoan(store[a].valuation, store[a].risk_score)
                used     == IsLoan(LoanKey(a, b)) /\ store[LoanKey(a, b)].principal = max_loan
                unused   == store[LoanKey(a, b)].kind = "Empty"
            IN  \A loan_amount \in LoanAmounts \cup {Succ(max_loan)},
                   interest_rate \in InterestRates, duration \in Durations,
                   now \in Timestamps :
                    (~Leq(loan_amount, max_loan) /\ (used \/ unused)) =>
                        /\ CreateLoanResult(store, overflow_checks, LoanKey(a, b), a, b,
                                            loan_amount, duration, now) = "LoanTooHigh"
                        /\ unused =>
                            /\ CreateLoanStore(store, overflow_checks, LoanKey(a, b), a, b,
                                   loan_amount, interest_rate, duration, now) = store
                            /\ CreateLoanResult(store, overflow_checks, LoanKey(a, b), a, b,
                                   max_loan, duration, now) = "Ok"

\* C23 (amended): a create_loan whose loan_amount exceeds max_loan fails in
\* both orders, with a different error in each. Issued on an unused pair it
\* fails with LoanTooHigh and leaves the store as it is, so that a following
\* create_loan of max_loan for the pair is refused neither for its amount
\* nor for its address. Issued for the pair after a create_loan of max_loan
\* has succeeded it fails with AlreadyInUse, since the address is checked
\* before the amount, and leaves the store as it is.
C23_TooHighThenCollision ==
    \A a \in AssetAddresses, b \in Keys :
        IsAsset(a) =>
            LET max_loan == MaxLoan(store[a].valuation, store[a].risk_score)
                used     == IsLoan(LoanKey(a, b)) /\ store[LoanKey(a, b)].principal = max_loan
                unused   == store[LoanKey(a, b)].kind = "Empty"
            IN  \A loan_amount \in LoanAmounts \cup {Succ(max_loan)},
                   interest_rate \in InterestRates,
                   duration \in Durations \cup ExtremeDurations,
                   now \in Timestamps, checks \in BOOLEAN :
                    (~Leq(loan_amount, max_loan) /\ (used \/ unused)) =>
                        /\ CreateLoanResult(store, checks, LoanKey(a, b), a, b,
                                            loan_amount, duration, now)
                               = IF unused THEN "LoanTooHigh" ELSE "AlreadyInUse"
                        /\ CreateLoanStore(store, checks, LoanKey(a, b), a, b,
                                   loan_amount, interest_rate, duration, now) = store
                        /\ unused =>
                               CreateLoanResult(store, checks, LoanKey(a, b), a, b,
                                   max_loan, duration, now)
                                   \notin {"LoanTooHigh", "AlreadyInUse"}

\* a borrower holds an active loan of max_loan of an asset whose other pair
\* is unused, a larger amount is among the calls, and a second create_loan
\* for the borrower's pair has just been turned away
C23_Witness ==
    /\ last.op = "create_loan"
    /\ last.result = "AlreadyInUse"
    /\ \E a \in AssetAddresses, b \in Keys, other \in Keys :
           /\ IsAsset(a) /\ IsLoan(LoanKey(a, b))
           /\ store[LoanKey(a, b)].is_active
           /\ store[LoanKey(a, b)].principal = MaxLoan(store[a].valuation, store[a].risk_score)
           /\ store[LoanKey(a, other)].kind = "Empty"
           /\ \E loan_amount \in LoanAmounts :
                  ~Leq(loan_amount, MaxLoan(store[a].valuation, store[a].risk_score))
           /\ Cardinality({k \in Addresses : IsLoan(k)}) = 1

C25_CreateLoanStoresExactSum ==
    \A a \in AssetAddresses, b \in Keys :
        \A loan_amount \in LoanAmounts, interest_rate \in InterestRates,
           duration \in Durations \cup ExtremeDurations, now \in Timestamps :
            CreateLoanResult(store, overflow_checks, LoanKey(a, b), a, b,
                             loan_amount, duration, now) = "Ok" =>
                LET loan == CreateLoanStore(store, overflow_checks, LoanKey(a, b), a, b,
                                loan_amount, interest_rate, duration, now)[LoanKey(a, b)]
                IN  /\ loan.kind = "Loan"
                    /\ loan.principal = loan_amount
                    /\ loan.interest_rate = interest_rate
                    /\ loan.start_time = now
                    /\ loan.is_active /\ ~loan.repaid /\ ~loan.liquidated
                    /\ ~AddOverflows(now, duration)
                    /\ loan.end_time = WrappingAdd(now, duration)

\* C26: a loan is liquidated only on the strength of its own collateral:
\* in every reachable store liquidate_loan succeeds only when the asset
\* passed is the Asset at loan.asset, so a loan whose own asset has
\* risk_score <= 80 is not liquidated by passing another asset with
\* risk_score > 80.
C26_LiquidationNeedsOwnAsset ==
    \A loan_key \in LoanAddresses, asset_key \in AssetAddresses :
        LiquidateLoanResult(store, loan_key, asset_key) = "Ok" =>
            /\ asset_key = store[loan_key].asset
            /\ store[store[loan_key].asset].risk_score > 80

\* C27: repay_loan marks a loan repaid only when the caller is the borrower
\* stored in that Loan: every step of repay_loan that changes a Loan is
\* signed by the Loan's borrower, and a call signed by anyone else leaves
\* the loan as it was.
C27_OnlyBorrowerRepays ==
    [][\A k \in LoanAddresses :
          (last'.op = "repay_loan" /\ store[k].kind = "Loan" /\ store'[k] # store[k])
              => last'.signer = store[k].borrower]_vars

\* C28: in every reachable state every Loan has
\* principal <= floor(valuation * ltv(risk_score_at_creation) / 100), with
\* the current valuation of the Asset at loan.asset and ltv from the tier
\* table, also after update_risk_score has moved the asset to a tier with a
\* lower ceiling: 100 * principal <= valuation * ltv, in 96 bits.
C28_PrincipalWithinCreationCeiling ==
    \A k \in LoanAddresses :
        IsLoan(k) =>
            /\ IsAsset(store[k].asset)
            /\ store[k].risk_score_at_creation \in 0..100
            /\ Leq(WrappingMul(Widen(store[k].principal, RefLimbs), 100),
                   WrappingMul(Widen(store[store[k].asset].valuation, RefLimbs),
                               TierPercent(store[k].risk_score_at_creation)))

\* a loan of 1 taken at risk score 50 against a valuation of 3, whose asset
\* has since moved to risk score 81, where the ceiling is 0
C28_Witness ==
    \E k \in LoanAddresses :
        /\ IsLoan(k)
        /\ store[k].principal = U64(1)
        /\ store[k].risk_score_at_creation = 50
        /\ store[store[k].asset].valuation = U64(3)
        /\ store[store[k].asset].risk_score = 81
        /\ MaxLoan(store[store[k].asset].valuation, store[store[k].asset].risk_score) = U64(0)

\* the principals of the active loans at the addresses keys that are
\* collateralized by asset a, added up in 96 bits
RECURSIVE ActivePrincipals(_, _)
ActivePrincipals(a, keys) ==
    IF keys = {} THEN Zero(RefLimbs)
    ELSE LET k == CHOOSE k \in keys : TRUE
             rest == ActivePrincipals(a, keys \ {k})
         IN  IF IsLoan(k) /\ store[k].is_active /\ store[k].asset = a
             THEN WrappingAdd(rest, Widen(store[k].principal, RefLimbs))
             ELSE rest

\* C29: in every reachable state, for every Asset, the principals of all
\* active loans collateralized by it, across all borrowers, add up to at
\* most floor(valuation * 70 / 100), the ceiling of the tier with the
\* highest loan-to-value ratio: 100 * sum <= valuation * 70.
C29_TotalWithinCeiling ==
    \A a \in AssetAddresses :
        IsAsset(a) =>
            Leq(WrappingMul(ActivePrincipals(a, LoanAddresses), 100),
                WrappingMul(Widen(store[a].valuation, RefLimbs), TierPercent(0)))

\* C30: every Loan is in exactly one of three states: in every reachable
\* state exactly one of is_active, repaid and liquidated is true, so no
\* loan is inactive with neither terminal flag set.
C30_ExactlyOneLoanState ==
    \A k \in LoanAddresses :
        IsLoan(k) =>
            Cardinality({flag \in {"is_active", "repaid", "liquidated"} : store[k][flag]}) = 1

\* a loan that has just been liquidated next to one that is still active
C30_Witness ==
    /\ last.op = "liquidate_loan"
    /\ last.result = "Ok"
    /\ \E k \in LoanAddresses :
           IsLoan(k) /\ store[k].liquidated /\ ~store[k].is_active /\ ~store[k].repaid
    /\ \E k \in LoanAddresses :
           IsLoan(k) /\ store[k].is_active /\ ~store[k].liquidated /\ ~store[k].repaid

\* every Loan names an existing Asset, and every record is at the address
\* of its own fields and stored bump, which is the address found for them
RecordsInPlace ==
    \A k \in Addresses :
        /\ IsAsset(k) =>
               /\ k = CreateProgramAddress(AssetSeeds(store[k].asset_id), store[k].bump)
               /\ k = AssetKey(store[k].asset_id)
        /\ IsLoan(k) =>
               /\ store[k].asset \in AssetAddresses
               /\ IsAsset(store[k].asset)
               /\ k = CreateProgramAddress(LoanSeeds(store[k].asset, store[k].borrower),
                                           store[k].bump)
               /\ k = LoanKey(store[k].asset, store[k].borrower)

\* C31: store consistency. In every reachable state every Loan's asset
\* field is the address of an existing Asset and every record sits at the
\* address derived from its own fields and its stored bump; and in every
\* step no record is removed: an Asset stays an Asset and a Loan stays a
\* Loan at its address.
C31_StoreConsistency ==
    /\ []RecordsInPlace
    /\ [][\A k \in Addresses :
             store[k].kind # "Empty" => store'[k].kind = store[k].kind]_vars

\* an Asset whose bump is 254 under a repaid Loan whose bump is 253, after
\* a further call
C31_Witness ==
    /\ last.op = "update_risk_score"
    /\ last.result = "Ok"
    /\ \E k \in LoanAddresses :
           /\ IsLoan(k) /\ store[k].repaid /\ store[k].bump = 253
           /\ IsAsset(store[k].asset) /\ store[store[k].asset].bump = 254
           /\ store[store[k].asset].risk_score = 81

\* repay_loan succeeds on every active loan
RepayEnabled == \A k \in LoanAddresses : (IsLoan(k) /\ store[k].is_active) => RepayLoanResult(store, k) = "Ok"

\* a loan is liquidated only in a state where some asset has a risk score
\* above 80, and a risk score gets above 80 (from the 50 of a new Asset)
\* only by a successful update_risk_score
LiquidationFollowsUpdate ==
    /\ \A k \in LoanAddresses :
           (IsLoan(k) /\ ~store[k].liquidated /\ store'[k].liquidated) =>
               \E a \in AssetAddresses : IsAsset(a) /\ store[a].risk_score > 80
    /\ \A a \in AssetAddresses :
           (~(IsAsset(a) /\ store[a].risk_score > 80)
                /\ store'[a].kind = "Asset" /\ store'[a].risk_score > 80) =>
               last'.op = "update_risk_score" /\ last'.result = "Ok"

====
